---------------------------- MODULE Spec2Model ----------------------------
(***************************************************************************)
(* A model of the WebSpocket client (src/src/classes/WebSpocketClient.ts): *)
(* the opening handshake, send, close, the receive loop and the frame      *)
(* dispatch, together with the frame encoder (FrameGenerator) and the      *)
(* read/write helpers.  Bytes are naturals 0..255 and byte arrays are      *)
(* sequences; buffer[i] of the source is buf[i+1] here.                    *)
(*                                                                         *)
(* One session performs one connect().  JavaScript runs each handler to    *)
(* its next await without interruption, so each action below is one such   *)
(* run: a call of the API, the completion of a transport write, or the     *)
(* completion of a transport read together with the whole decode loop.     *)
(***************************************************************************)
EXTENDS Integers, Sequences, FiniteSets, TLC

VARIABLES
    readyState,      \* this.readyState
    connection,      \* this.connection: TRUE when a transport handle is held
    connectPc,       \* position of connect(): "idle", "handshake", "done"
    key,             \* the Sec-WebSocket-Key generated by connect()
    response,        \* the response lines connect() read from the server
    loopPc,          \* position of listenForFrames(): "idle", "read", "exited", "threw"
    messageBuffer,   \* listenForFrames' pending fragment payloads
    pendingSends,    \* send() writes whose .then has not run yet
    pendingClose,    \* close() write whose .then has not run yet
    transportClosed, \* number of conn.close() calls made
    closeFrames,     \* number of Close frames handed to the transport
    framesIn,        \* number of server frames delivered so far
    onMessage,       \* what the registered onMessage handler does
    lastOp,          \* the operation that ran last, with its input
    out,             \* what that operation did: writes, reads, callbacks, faults
    codec            \* the encoder/decoder exercised on their own (SpecCodec)

vars == <<readyState, connection, connectPc, key, response, loopPc,
          messageBuffer, pendingSends, pendingClose, transportClosed,
          closeFrames, framesIn, onMessage, lastOp, out, codec>>

-----------------------------------------------------------------------------
(* Bounds of the model.                                                    *)

MaxFrames == 2        \* server frames delivered over the whole connection
MaxPendingSends == 2  \* send() writes in flight at one time
MaxResponseLines == 3 \* header lines of a handshake response
MaxIter == 6          \* iterations of the decode loop followed in one buffer

-----------------------------------------------------------------------------
(* enums.ts                                                                *)

CONNECTING == "CONNECTING"
CONNECTED == "CONNECTED"
OPEN == "OPEN"
CLOSING == "CLOSING"
CLOSED == "CLOSED"

ReadyState == {CONNECTING, CONNECTED, OPEN, CLOSING, CLOSED}

NORMAL_CLOSURE == 1000
PROTOCOL_ERROR == 1002
INVALID_OPCODE == 1003
INTERNAL_ERROR == 1011

BufferSize == 65536

-----------------------------------------------------------------------------
(* Integer and byte arithmetic as JavaScript does it.                      *)

Min(a, b) == IF a < b THEN a ELSE b
Max(a, b) == IF a > b THEN a ELSE b

RECURSIVE Pow2(_)
Pow2(n) == IF n = 0 THEN 1 ELSE 2 * Pow2(n - 1)

\* x >> n on a non-negative 32-bit x; the shift count is taken modulo 32
Shr(x, n) == IF n % 32 = 31 THEN 0 ELSE x \div Pow2(n % 32)

\* (x << 8) | b on 32-bit integers, for a byte b: the low 24 bits of x move
\* up by 8 and bit 31 of the result is the sign
Shl8Or(x, b) ==
    LET low24 == x % 16777216
    IN  (IF low24 >= 8388608 THEN low24 - 16777216 ELSE low24) * 256 + b

RECURSIVE BitXor(_, _)
BitXor(a, b) ==
    IF a = 0 THEN b
    ELSE IF b = 0 THEN a
    ELSE ((a + b) % 2) + 2 * BitXor(a \div 2, b \div 2)

\* buffer[i] used in a bitwise expression: an index outside the bytes read
\* gives 0 (the zero fill of the fresh buffer, or undefined coerced to 0)
BufAt(buf, i) == IF i >= 0 /\ i < Len(buf) THEN buf[i + 1] ELSE 0

-----------------------------------------------------------------------------
(* TextDecoder / TextEncoder (UTF-8) and String.prototype.trim.            *)
(* A string is a sequence of code points.                                  *)

REPLACEMENT == 65533
BOM == 65279

\* code points String.prototype.trim removes
IsWhiteSpace(cp) ==
    \/ cp \in {9, 10, 11, 12, 13, 32, 160, 5760, 8232, 8233, 8239, 8287, 12288, BOM}
    \/ cp \in 8192..8202

\* UTF-8 decoding of bytes[i..]; need/seen/lo/hi/cp are the decoder's state
RECURSIVE Utf8Dec(_, _, _, _, _, _, _)
Utf8Dec(bytes, i, need, seen, lo, hi, cp) ==
    IF i > Len(bytes) THEN (IF need = 0 THEN <<>> ELSE <<REPLACEMENT>>)
    ELSE LET b == bytes[i] IN
      IF need = 0 THEN
        IF b <= 127 THEN <<b>> \o Utf8Dec(bytes, i + 1, 0, 0, 128, 191, 0)
        ELSE IF b >= 194 /\ b <= 223
          THEN Utf8Dec(bytes, i + 1, 1, 0, 128, 191, b % 32)
        ELSE IF b >= 224 /\ b <= 239
          THEN Utf8Dec(bytes, i + 1, 2, 0,
                       IF b = 224 THEN 160 ELSE 128,
                       IF b = 237 THEN 159 ELSE 191, b % 16)
        ELSE IF b >= 240 /\ b <= 244
          THEN Utf8Dec(bytes, i + 1, 3, 0,
                       IF b = 240 THEN 144 ELSE 128,
                       IF b = 244 THEN 143 ELSE 191, b % 8)
        ELSE <<REPLACEMENT>> \o Utf8Dec(bytes, i + 1, 0, 0, 128, 191, 0)
      ELSE IF b < lo \/ b > hi
        THEN <<REPLACEMENT>> \o Utf8Dec(bytes, i, 0, 0, 128, 191, 0)
      ELSE IF seen + 1 = need
        THEN <<cp * 64 + (b % 64)>> \o Utf8Dec(bytes, i + 1, 0, 0, 128, 191, 0)
      ELSE Utf8Dec(bytes, i + 1, need, seen + 1, 128, 191, cp * 64 + (b % 64))

\* new TextDecoder().decode(bytes): a leading byte order mark is dropped
TextDecode(bytes) ==
    LET s == Utf8Dec(bytes, 1, 0, 0, 128, 191, 0)
    IN  IF Len(s) > 0 /\ s[1] = BOM THEN Tail(s) ELSE s

RECURSIVE TextEncode(_)
TextEncode(s) ==
    IF s = <<>> THEN <<>>
    ELSE LET c == Head(s) IN
      (IF c < 128 THEN <<c>>
       ELSE IF c < 2048 THEN <<192 + (c \div 64), 128 + (c % 64)>>
       ELSE <<224 + (c \div 4096), 128 + ((c \div 64) % 64), 128 + (c % 64)>>)
      \o TextEncode(Tail(s))

RECURSIVE TrimStart(_)
TrimStart(s) ==
    IF s /= <<>> /\ IsWhiteSpace(Head(s)) THEN TrimStart(Tail(s)) ELSE s

RECURSIVE TrimEnd(_)
TrimEnd(s) ==
    IF s /= <<>> /\ IsWhiteSpace(s[Len(s)])
    THEN TrimEnd(SubSeq(s, 1, Len(s) - 1)) ELSE s

Trim(s) == TrimEnd(TrimStart(s))

\* s.length: UTF-16 code units
RECURSIVE StrLength(_)
StrLength(s) ==
    IF s = <<>> THEN 0
    ELSE (IF Head(s) >= 65536 THEN 2 ELSE 1) + StrLength(Tail(s))

-----------------------------------------------------------------------------
(* FrameGenerator: the frame encoder.  masked is the constructor's third   *)
(* argument: "true", "false" or "undefined" (omitted); maskingKey is the   *)
(* 4 bytes crypto.getRandomValues produced.                                *)

\* this.masked after the constructor's first statements
ThisMasked(masked) == IF masked = "undefined" THEN TRUE ELSE masked = "true"

\* 0x80 | opcode, stored in a byte
FinOpcodeByte(opcode) ==
    (IF (opcode \div 128) % 2 = 1 THEN opcode ELSE opcode + 128) % 256

\* the loop masking the payload: data[i] ^= maskingKey[i % 4]
MaskData(data, maskingKey) ==
    [i \in 1..Len(data) |-> BitXor(data[i], maskingKey[((i - 1) % 4) + 1])]

\* the header array, after the masking key has been copied into it
FrameHeader(opcode, payloadLen, masked, maskingKey) ==
    LET headerLen == IF ThisMasked(masked) THEN 6 ELSE 2
        payloadLenBytes == IF payloadLen > 125
                           THEN (IF payloadLen <= 65535 THEN 2 ELSE 8)
                           ELSE 0
        maskBit == IF masked = "true" THEN 128 ELSE 0
        byte(i) ==
            IF ThisMasked(masked) /\ i >= headerLen - 4 /\ i < headerLen
              THEN maskingKey[i - (headerLen - 4) + 1]
            ELSE IF i = 0 THEN FinOpcodeByte(opcode)
            ELSE IF payloadLen <= 125
              THEN (IF i = 1 THEN maskBit + payloadLen ELSE 0)
            ELSE IF payloadLen <= 65535
              THEN (IF i = 1 THEN maskBit + 126
                    ELSE IF i = 2 THEN (payloadLen \div 256) % 256
                    ELSE IF i = 3 THEN payloadLen % 256
                    ELSE 0)
            ELSE (IF i = 1 THEN maskBit + 127
                  ELSE IF i >= 2 /\ i < 10
                    THEN Shr(payloadLen, (7 - (i - 2)) * 8) % 256
                  ELSE 0)
    IN  [i \in 1..(headerLen + payloadLenBytes) |-> byte(i - 1)]

\* new FrameGenerator(opcode, data, masked).frame
FrameGenerator(opcode, data, masked, maskingKey) ==
    FrameHeader(opcode, Len(data), masked, maskingKey)
      \o (IF masked = "true" THEN MaskData(data, maskingKey) ELSE data)

-----------------------------------------------------------------------------
(* The opening handshake of connect().                                     *)

\* generateSecWebSocketKey(): the base64 text of 16 random bytes
SecWebSocketKeys == {"dGhlIHNhbXBsZSBub25jZQ==", "AAAAAAAAAAAAAAAAAAAAAA=="}

\* encodeBase64(SHA-1(key ++ "258EAFA5-E914-47DA-95CA-C5AB0DC85B11")),
\* tabulated for the keys above
AcceptOf(k) ==
    IF k = "dGhlIHNhbXBsZSBub25jZQ==" THEN "s3pPLMBiTxaQ9kYGzzhZRbK+xOo="
    ELSE "ICX+Yqv66kxgM0FcWaLWlFLwTAI="

\* One line of the response.  f0 and f1 are the two parts line.split(": ")
\* gives; proto and code are the first two words of f0 when it is a status
\* line and "" otherwise; an empty line has f0 = "".
Line(proto, code, f0, f1) == [proto |-> proto, code |-> code, f0 |-> f0, f1 |-> f1]

StatusLine(proto, code) == Line(proto, code, "status", "")
Header(name, value) == Line("", "", name, value)
EmptyLine == Line("", "", "", "")

ResponseLines ==
    {StatusLine("HTTP/1.1", "101"), StatusLine("HTTP/1.1", "400"), EmptyLine,
     Header("connection", "Upgrade"), Header("connection", "close"),
     Header("upgrade", "websocket"), Header("upgrade", "h2c")}
    \cup {Header("sec-websocket-accept", AcceptOf(k)) : k \in SecWebSocketKeys}

\* the response a conforming server sends for key k (the header block ends
\* with an empty line, which read() trims away)
GoodResponse(k) ==
    <<StatusLine("HTTP/1.1", "101"), Header("upgrade", "websocket"),
      Header("connection", "Upgrade"), Header("sec-websocket-accept", AcceptOf(k))>>

\* the lines left after response.pop()
Popped(lines) == IF lines = <<>> THEN <<>> ELSE SubSeq(lines, 1, Len(lines) - 1)

\* the indices of checks[] the loop over the response lines assigns
ChecksAssigned(lines, k) ==
    {c \in 0..3 : \E i \in 1..Len(lines) :
        /\ lines[i].f0 /= ""
        /\ \/ c = 0 /\ lines[i].proto = "HTTP/1.1" /\ lines[i].code = "101"
           \/ c = 1 /\ lines[i].f0 = "sec-websocket-accept" /\ lines[i].f1 = AcceptOf(k)
           \/ c = 2 /\ lines[i].f0 = "connection" /\ lines[i].f1 = "Upgrade"
           \/ c = 3 /\ lines[i].f0 = "upgrade" /\ lines[i].f1 = "websocket"}

\* the checks array: every assigned element is true, the others are holes
Checks(lines, k) == [c \in ChecksAssigned(lines, k) |-> TRUE]

\* checks.filter((check) => !check): filter visits the assigned elements only
FailedChecks(checks) == {c \in DOMAIN checks : ~checks[c]}

-----------------------------------------------------------------------------
(* What an operation does is recorded as a sequence of events.             *)
(*   write     n = opcode, data = the frame bytes                          *)
(*   request   the handshake request, data = <<>>                          *)
(*   read      a transport read is started                                 *)
(*   onMessage n = 1 (TEXT) or 2 (BINARY), data = the message              *)
(*   onClose   n = the code                                                *)
(*   onReady                                                               *)
(*   fault     a rejected promise nobody handles, n = opcode of the write  *)
(* rs is this.readyState at that moment.                                   *)

Ev(ev, n, data, rs) == [ev |-> ev, n |-> n, data |-> data, rs |-> rs]

Emit(st, ev, n, data) ==
    [st EXCEPT !.out = Append(@, Ev(ev, n, data, st.readyState))]

\* the part of the session the synchronous handlers work on
Session ==
    [readyState |-> readyState, connection |-> connection,
     pendingSends |-> pendingSends, pendingClose |-> pendingClose,
     closeFrames |-> closeFrames, out |-> <<>>]

\* write(conn, frame) on a present connection starts the transport write;
\* on an absent one conn.write throws inside the async function and the
\* promise is rejected
write(st, opcode, frame) ==
    IF st.connection THEN Emit(st, "write", opcode, frame)
    ELSE Emit(st, "fault", opcode, <<>>)

\* send() as it would be if its guard let every state but Closed through
send_GuardOnlyClosed(st, data, maskingKey) ==
    IF st.readyState /= CLOSED THEN
      IF data = <<>> THEN st
      ELSE LET s1 == [st EXCEPT !.readyState = OPEN]
               s2 == write(s1, 1, FrameGenerator(1, TextEncode(data), "true", maskingKey))
           IN  IF st.connection
               THEN [s2 EXCEPT !.pendingSends = @ + 1]
               ELSE s2
    ELSE st

\* send(data): data is a string
send(st, data, maskingKey) ==
    IF st.readyState = OPEN \/ st.readyState = CONNECTED THEN
      IF data = <<>> THEN st
      ELSE LET s1 == [st EXCEPT !.readyState = OPEN]
               s2 == write(s1, 1, FrameGenerator(1, TextEncode(data), "true", maskingKey))
           IN  IF st.connection
               THEN [s2 EXCEPT !.pendingSends = @ + 1]
               ELSE s2
    ELSE st

\* the two bytes close() puts in the Close frame
ErrorTypeBytes(errorType) == <<(errorType \div 256) % 256, errorType % 256>>

\* close() as it would be if it kept this.connection after writing the frame
close_KeepsConnection(st, errorType, maskingKey) ==
    IF st.readyState /= CLOSED /\ st.readyState /= CLOSING THEN
      LET s1 == [st EXCEPT !.readyState = CLOSING]
      IN  IF st.connection
          THEN [write(s1, 8, FrameGenerator(8, ErrorTypeBytes(errorType), "true", maskingKey))
                  EXCEPT !.pendingClose = TRUE,
                         !.closeFrames = @ + 1]
          ELSE s1
    ELSE st

\* close(errorType)
close(st, errorType, maskingKey) ==
    IF st.readyState /= CLOSED /\ st.readyState /= CLOSING THEN
      LET s1 == [st EXCEPT !.readyState = CLOSING]
      IN  IF st.connection
          THEN [write(s1, 8, FrameGenerator(8, ErrorTypeBytes(errorType), "true", maskingKey))
                  EXCEPT !.pendingClose = TRUE,
                         !.closeFrames = @ + 1,
                         !.connection = FALSE]
          ELSE s1
    ELSE st

\* what the user's onMessage handler does when it is invoked
OnMessageHandlers == {"none", "send", "close"}

\* the string the user sends
Hello == <<72, 105>>

userOnMessage(st, handler, maskingKey) ==
    IF handler = "send" THEN send(st, Hello, maskingKey)
    ELSE IF handler = "close" THEN close(st, NORMAL_CLOSURE, maskingKey)
    ELSE st

\* (data[0] << 8) | data[1]; an element that is not there counts as 0
CloseCode(data) ==
    (IF Len(data) >= 1 THEN data[1] * 256 ELSE 0)
      + (IF Len(data) >= 2 THEN data[2] ELSE 0)

\* handleFrame() as it would be if the Pong were built with masked = false
handleFrame_PongUnmasked(st, opcode, data, handler, maskingKey) ==
    IF opcode = 1
      THEN userOnMessage(Emit(st, "onMessage", 1, TextDecode(data)), handler, maskingKey)
    ELSE IF opcode = 2
      THEN userOnMessage(Emit(st, "onMessage", 2, data), handler, maskingKey)
    ELSE IF opcode = 9
      THEN write(st, 10, FrameGenerator(10, data, "false", maskingKey))
    ELSE IF opcode = 8
      THEN Emit([st EXCEPT !.readyState = CLOSED], "onClose", CloseCode(data), <<>>)
    ELSE close(st, INVALID_OPCODE, maskingKey)

\* handleFrame(opcode, data)
handleFrame(st, opcode, data, handler, maskingKey) ==
    IF opcode = 1
      THEN userOnMessage(Emit(st, "onMessage", 1, TextDecode(data)), handler, maskingKey)
    ELSE IF opcode = 2
      THEN userOnMessage(Emit(st, "onMessage", 2, data), handler, maskingKey)
    ELSE IF opcode = 9
      THEN write(st, 10, FrameGenerator(10, data, "true", maskingKey))
    ELSE IF opcode = 8
      THEN Emit([st EXCEPT !.readyState = CLOSED], "onClose", CloseCode(data), <<>>)
    ELSE close(st, INVALID_OPCODE, maskingKey)

-----------------------------------------------------------------------------
(* listenForFrames(): the decode loop over one read buffer.                *)

\* concatenateUint8Arrays(arrays): the arrays joined in order
RECURSIVE concatenateUint8Arrays(_)
concatenateUint8Arrays(arrays) ==
    IF arrays = <<>> THEN <<>>
    ELSE Head(arrays) \o concatenateUint8Arrays(Tail(arrays))

\* an index of subarray(), relative to the end when negative, clamped
RelIndex(x) == IF x < 0 THEN Max(BufferSize + x, 0) ELSE Min(x, BufferSize)

\* buffer.subarray(begin, end) of the 65536-byte read buffer
Subarray(buf, begin, end) ==
    LET b == RelIndex(begin)
        n == Max(RelIndex(end) - b, 0)
    IN  [i \in 1..n |-> BufAt(buf, b + i - 1)]

\* the read buffer after FrameGenerator has masked, in place, the n bytes
\* of the view that starts at begin
MaskInPlace(buf, begin, n, maskingKey) ==
    LET b == RelIndex(begin)
    IN  [i \in 1..Max(Len(buf), b + n) |->
           IF i - 1 >= b /\ i - 1 < b + n
           THEN BitXor(BufAt(buf, i - 1), maskingKey[((i - 1 - b) % 4) + 1])
           ELSE BufAt(buf, i - 1)]

\* the frame header at offset: fin, opcode, mask, payloadLen and the offset
\* of the payload
ParseHeader(buf, offset) ==
    LET b0 == BufAt(buf, offset)
        b1 == BufAt(buf, offset + 1)
        len7 == b1 % 128
        long == Shl8Or(Shl8Or(Shl8Or(Shl8Or(Shl8Or(Shl8Or(Shl8Or(Shl8Or(0,
                  BufAt(buf, offset + 2)), BufAt(buf, offset + 3)),
                  BufAt(buf, offset + 4)), BufAt(buf, offset + 5)),
                  BufAt(buf, offset + 6)), BufAt(buf, offset + 7)),
                  BufAt(buf, offset + 8)), BufAt(buf, offset + 9))
    IN  [fin |-> (b0 \div 128) % 2,
         opcode |-> b0 % 16,
         mask |-> (b1 \div 128) % 2,
         payloadLen |-> IF len7 = 126
                          THEN BufAt(buf, offset + 2) * 256 + BufAt(buf, offset + 3)
                        ELSE IF len7 = 127 THEN long
                        ELSE len7,
         offset |-> IF len7 = 126 THEN offset + 4
                    ELSE IF len7 = 127 THEN offset + 10
                    ELSE offset + 2]

\* the decode loop as it would be if a frame were dispatched only after the
\* frames that follow it in the buffer
RECURSIVE decodeLoop_LastFirst(_, _, _, _, _, _, _, _)
decodeLoop_LastFirst(st, buf, dataLength, offset, mb, handler, maskingKey, iter) ==
    IF ~(offset < dataLength)
      THEN [st |-> st, messageBuffer |-> mb, hung |-> FALSE]
    ELSE IF iter >= MaxIter
      THEN [st |-> st, messageBuffer |-> mb, hung |-> TRUE]
    ELSE
      LET h == ParseHeader(buf, offset)
          payload == Subarray(buf, h.offset, h.offset + h.payloadLen)
          next == h.offset + h.payloadLen
          rest == decodeLoop_LastFirst(st, buf, dataLength, next, mb, handler,
                                       maskingKey, iter + 1)
      IN  IF h.mask /= 0
            THEN [st |-> close(st, PROTOCOL_ERROR, maskingKey),
                  messageBuffer |-> mb, hung |-> FALSE]
          ELSE IF h.fin /= 0
            THEN [rest EXCEPT !.st = handleFrame(rest.st, h.opcode, payload,
                                                 handler, maskingKey)]
          ELSE decodeLoop_LastFirst(st, buf, dataLength, next, Append(mb, payload),
                                    handler, maskingKey, iter + 1)

\* while (offset < data.length) { ... }: the result is the session, the
\* pending fragments, and hung = TRUE when MaxIter iterations did not end it
RECURSIVE decodeLoop(_, _, _, _, _, _, _, _)
decodeLoop(st, buf, dataLength, offset, mb, handler, maskingKey, iter) ==
    IF ~(offset < dataLength)
      THEN [st |-> st, messageBuffer |-> mb, hung |-> FALSE]
    ELSE IF iter >= MaxIter
      THEN [st |-> st, messageBuffer |-> mb, hung |-> TRUE]
    ELSE
      LET h == ParseHeader(buf, offset)
          payload == Subarray(buf, h.offset, h.offset + h.payloadLen)
          next == h.offset + h.payloadLen
      IN  IF h.mask /= 0
            THEN [st |-> close(st, PROTOCOL_ERROR, maskingKey),
                  messageBuffer |-> mb, hung |-> FALSE]
          ELSE IF h.fin /= 0 THEN
            IF Len(mb) > 0
            THEN decodeLoop(
                   handleFrame(st, h.opcode,
                               concatenateUint8Arrays(Append(mb, payload)),
                               handler, maskingKey),
                   buf, dataLength, next, <<>>, handler, maskingKey, iter + 1)
            ELSE decodeLoop(
                   handleFrame(st, h.opcode, payload, handler, maskingKey),
                   IF h.opcode = 9
                     THEN MaskInPlace(buf, h.offset, Len(payload), maskingKey)
                     ELSE buf,
                   dataLength, next, mb, handler, maskingKey, iter + 1)
          ELSE decodeLoop(st, buf, dataLength, next, Append(mb, payload),
                          handler, maskingKey, iter + 1)

\* read(conn).data.length: the bytes decoded as UTF-8 and trimmed
DataOf(bytes) == Trim(TextDecode(bytes))

\* the top of the while loop of listenForFrames: the state test and the
\* start of the next read
loopTop(st, maskingKey) ==
    IF st.readyState = CONNECTED THEN
      IF st.connection
        THEN [st |-> Emit(st, "read", 0, <<>>), pc |-> "read"]
        ELSE [st |-> close(st, INTERNAL_ERROR, maskingKey), pc |-> "exited"]
    ELSE [st |-> st, pc |-> "exited"]

\* one iteration of the while loop of listenForFrames, from the completion
\* of read() with these bytes to the next await (or to the loop's exit)
loopBody(st, bytes, mb, handler, maskingKey) ==
    IF DataOf(bytes) = <<>>
      THEN [st |-> close(st, INTERNAL_ERROR, maskingKey),
            messageBuffer |-> mb, pc |-> "exited"]
    ELSE
      LET r == decodeLoop(st, bytes, StrLength(DataOf(bytes)), 0, mb,
                          handler, maskingKey, 0)
          t == loopTop(r.st, maskingKey)
      IN  IF r.hung
            THEN [st |-> r.st, messageBuffer |-> r.messageBuffer, pc |-> "hung"]
            ELSE [st |-> t.st, messageBuffer |-> r.messageBuffer, pc |-> t.pc]

-----------------------------------------------------------------------------
(* The environment: the user's calls and what the server sends.            *)

\* crypto.getRandomValues(maskingKey)
MaskingKeys == {<<55, 250, 33, 61>>}

\* the strings the user passes to send
SendInputs == {<<>>, Hello}

\* the codes the user passes to close
CloseInputs == {NORMAL_CLOSURE}

\* a frame as the server means it
ServerFrame(fin, opcode, mask, payload) ==
    [fin |-> fin, opcode |-> opcode, mask |-> mask, payload |-> payload]

ServerMaskingKey == <<1, 2, 3, 4>>

\* its bytes on the wire (payloads of at most 125 bytes)
WireBytes(f) ==
    <<f.fin * 128 + f.opcode, f.mask * 128 + Len(f.payload)>>
      \o (IF f.mask = 1
          THEN ServerMaskingKey \o MaskData(f.payload, ServerMaskingKey)
          ELSE f.payload)

Euro == <<226, 130, 172>>

ServerFrames ==
    {ServerFrame(0, 1, 0, <<72, 101>>),           \* Text, fin=0, "He"
     ServerFrame(0, 0, 0, <<108, 108>>),          \* continuation, fin=0, "ll"
     ServerFrame(1, 0, 0, <<111>>),               \* continuation, fin=1, "o"
     ServerFrame(1, 1, 0, Euro \o Euro \o Euro \o Euro), \* Text, four 3-byte characters
     ServerFrame(1, 2, 0, <<0, 255>>),            \* Binary
     ServerFrame(1, 9, 0, <<97, 98, 99>>),        \* Ping "abc"
     ServerFrame(1, 10, 0, <<>>),                 \* Pong
     ServerFrame(1, 8, 0, <<3, 232>>),            \* Close 1000
     ServerFrame(1, 1, 1, <<72, 105>>)}           \* Text with the mask bit set

\* the bytes of one read that delivers these frames back to back
RECURSIVE ChunkBytes(_)
ChunkBytes(frames) ==
    IF frames = <<>> THEN <<>>
    ELSE WireBytes(Head(frames)) \o ChunkBytes(Tail(frames))

\* the key and the response of the session specification
SessionKeys == {"dGhlIHNhbXBsZSBub25jZQ=="}

SessionResponses ==
    {GoodResponse(k) \o <<EmptyLine>> : k \in SessionKeys}

\* the responses of the handshake specification
HandshakeResponses ==
    UNION {[1..n -> ResponseLines] : n \in 0..MaxResponseLines}
      \cup {GoodResponse(k) \o <<l>> : k \in SecWebSocketKeys, l \in ResponseLines}

NoOp == [op |-> "none", text |-> <<>>, code |-> 0, frames |-> <<>>,
         rs |-> CLOSED, conn |-> FALSE]

Op(name, text, code, frames) ==
    [op |-> name, text |-> text, code |-> code, frames |-> frames,
     rs |-> readyState, conn |-> connection]

-----------------------------------------------------------------------------
(* The codec on its own: FrameGenerator with masked = false, and the       *)
(* header parsing of listenForFrames applied to the frame it produced.     *)

\* data.length as hi * 2^32 + lo, with lo below 2^31
Length(hi, lo) == [hi |-> hi, lo |-> lo]

CodecLengths ==
    {Length(0, n) : n \in {0, 1, 125, 126, 127, 65535, 65536}}
      \cup {Length(1, 1)}

CodecOpcodes == 0..15

\* the payload of n bytes the codec is exercised with
CodecPayload(n) == [i \in 1..n |-> (i * 7) % 256]

\* the bytes of a frame of 2^32 bytes or more that are written out here
PrefixLen == 16

\* the header FrameGenerator builds, masked = false, when data.length is
\* 2^32 + lo: payloadLen >> n first reduces payloadLen to its low 32 bits
FrameHeader64(opcode, lo) ==
    <<FinOpcodeByte(opcode), 127>>
      \o [i \in 1..8 |-> Shr(lo, (7 - (i - 1)) * 8) % 256]

\* the third argument of the constructor: true, false, or omitted
MaskArgs == {"true", "false", "undefined"}

\* the opcodes the client encodes with masked = true: Text, Close, Pong
MaskedOpcodes == {1, 8, 10}

\* new FrameGenerator(opcode, data, masked).frame for data of that length:
\* the whole frame, or (masked = false only) its first bytes when it has
\* 2^32 bytes or more
EncodedFrame(opcode, len, masked, maskingKey) ==
    IF len.hi = 0
      THEN FrameGenerator(opcode, CodecPayload(len.lo), masked, maskingKey)
      ELSE FrameHeader64(opcode, len.lo) \o CodecPayload(PrefixLen)

\* frame.length of that frame
EncodedLength(opcode, len) ==
    Length(len.hi, len.lo + (IF len.hi = 0
                               THEN Len(FrameHeader(opcode, len.lo, "false", <<>>))
                               ELSE Len(FrameHeader64(opcode, len.lo))))

\* one iteration of the decode loop of listenForFrames at offset 0 of a
\* buffer holding these bytes: the header fields, the payload view and the
\* offset after offset += payloadLen
decodeFrame(bytes) ==
    LET h == ParseHeader(bytes, 0)
    IN  [fin |-> h.fin, opcode |-> h.opcode, payloadLen |-> h.payloadLen,
         payload |-> SubSeq(bytes, h.offset + 1,
                            Min(h.offset + h.payloadLen, Len(bytes))),
         offset |-> h.offset + h.payloadLen]

NoFrame == [fin |-> 0, opcode |-> 0, payloadLen |-> 0, payload |-> <<>>,
            offset |-> 0]

NoCodec == [pc |-> "off", opcode |-> 0, len |-> Length(0, 0),
            masked |-> "false", maskingKey |-> <<>>, frame |-> <<>>,
            decoded |-> NoFrame]

-----------------------------------------------------------------------------
(* The state machine.                                                      *)

\* the state after the constructor
Init ==
    /\ readyState = CLOSED
    /\ connection = FALSE
    /\ connectPc = "idle"
    /\ key = ""
    /\ response = <<>>
    /\ loopPc = "idle"
    /\ messageBuffer = <<>>
    /\ pendingSends = 0
    /\ pendingClose = FALSE
    /\ transportClosed = 0
    /\ closeFrames = 0
    /\ framesIn = 0
    /\ onMessage \in OnMessageHandlers
    /\ lastOp = NoOp
    /\ out = <<>>
    /\ codec = NoCodec

\* the handlers' result becomes the session's state
Commit(st) ==
    /\ readyState' = st.readyState
    /\ connection' = st.connection
    /\ pendingSends' = st.pendingSends
    /\ pendingClose' = st.pendingClose
    /\ closeFrames' = st.closeFrames
    /\ out' = st.out

\* the JavaScript thread is free to run another handler
Running == loopPc /= "hung"

\* connect(), up to its await of the server's response
ConnectStart(k) ==
    /\ Running
    /\ connectPc = "idle"
    /\ connectPc' = "handshake"
    /\ key' = k
    /\ Commit(Emit([Session EXCEPT !.readyState = CONNECTING], "request", 0, <<>>))
    /\ lastOp' = Op("connect", <<>>, 0, <<>>)
    /\ UNCHANGED <<codec, response, loopPc, messageBuffer, transportClosed, framesIn,
                   onMessage>>

\* connect(), from the server's response to its end
ConnectFinish(resp) ==
    /\ Running
    /\ connectPc = "handshake"
    /\ connectPc' = "done"
    /\ response' = resp
    /\ LET ok == Cardinality(FailedChecks(Checks(Popped(resp), key))) = 0
           s1 == IF ok
                 THEN [Session EXCEPT !.readyState = CONNECTED, !.connection = TRUE]
                 ELSE [Session EXCEPT !.readyState = CLOSED]
           \* listenForFrames(), to its first await, then onReady
           t  == loopTop(s1, CHOOSE mk \in MaskingKeys : TRUE)
       IN  IF s1.connection
           THEN /\ Commit(Emit(t.st, "onReady", 0, <<>>))
                /\ loopPc' = t.pc
           ELSE \* listenForFrames() rejects; nobody awaits it
                /\ Commit(Emit(Emit(s1, "fault", 0, <<>>), "onReady", 0, <<>>))
                /\ loopPc' = "threw"
    /\ lastOp' = Op("handshake", <<>>, 0, <<>>)
    /\ UNCHANGED <<codec, key, messageBuffer, transportClosed, framesIn, onMessage>>

\* connect() rejects: reading the server's response failed
ConnectFail ==
    /\ Running
    /\ connectPc = "handshake"
    /\ connectPc' = "failed"
    /\ lastOp' = Op("connectFail", <<>>, 0, <<>>)
    /\ out' = <<Ev("fault", 0, <<>>, readyState)>>
    /\ UNCHANGED <<codec, readyState, connection, key, response, loopPc, messageBuffer,
                   pendingSends, pendingClose, transportClosed, closeFrames,
                   framesIn, onMessage>>

\* the user calls send(data)
Send(data) ==
    /\ Running
    /\ pendingSends < MaxPendingSends
    /\ \E mk \in MaskingKeys : Commit(send(Session, data, mk))
    /\ lastOp' = Op("send", data, 0, <<>>)
    /\ UNCHANGED <<codec, connectPc, key, response, loopPc, messageBuffer,
                   transportClosed, framesIn, onMessage>>

\* the user calls close(errorType)
Close(errorType) ==
    /\ Running
    /\ \E mk \in MaskingKeys : Commit(close(Session, errorType, mk))
    /\ lastOp' = Op("close", <<>>, errorType, <<>>)
    /\ UNCHANGED <<codec, connectPc, key, response, loopPc, messageBuffer,
                   transportClosed, framesIn, onMessage>>

\* the write started by send() completes: its .then runs
SendWriteDone ==
    /\ Running
    /\ pendingSends > 0
    /\ pendingSends' = pendingSends - 1
    /\ readyState' = CONNECTED
    /\ lastOp' = Op("sendWriteDone", <<>>, 0, <<>>)
    /\ out' = <<>>
    /\ UNCHANGED <<codec, connection, connectPc, key, response, loopPc, messageBuffer,
                   pendingClose, transportClosed, closeFrames, framesIn,
                   onMessage>>

\* the write started by send() fails: its .then does not run
SendWriteFail ==
    /\ Running
    /\ pendingSends > 0
    /\ pendingSends' = pendingSends - 1
    /\ lastOp' = Op("sendWriteFail", <<>>, 0, <<>>)
    /\ out' = <<Ev("fault", 1, <<>>, readyState)>>
    /\ UNCHANGED <<codec, readyState, connection, connectPc, key, response, loopPc,
                   messageBuffer, pendingClose, transportClosed, closeFrames,
                   framesIn, onMessage>>

\* the write started by close() completes: its .then runs
CloseWriteDone ==
    /\ Running
    /\ pendingClose
    /\ pendingClose' = FALSE
    /\ transportClosed' = transportClosed + 1
    /\ readyState' = CLOSED
    /\ lastOp' = Op("closeWriteDone", <<>>, 0, <<>>)
    /\ out' = <<>>
    /\ UNCHANGED <<codec, connection, connectPc, key, response, loopPc, messageBuffer,
                   pendingSends, closeFrames, framesIn, onMessage>>

\* the write started by close() fails: its .then does not run
CloseWriteFail ==
    /\ Running
    /\ pendingClose
    /\ pendingClose' = FALSE
    /\ lastOp' = Op("closeWriteFail", <<>>, 0, <<>>)
    /\ out' = <<Ev("fault", 8, <<>>, readyState)>>
    /\ UNCHANGED <<codec, readyState, connection, connectPc, key, response, loopPc,
                   messageBuffer, pendingSends, transportClosed, closeFrames,
                   framesIn, onMessage>>

\* read() completes with bytes (none at the end of the stream), and the
\* loop runs to its next await
ReadBytes(frames) ==
    /\ Running
    /\ loopPc = "read"
    /\ transportClosed = 0
    /\ framesIn + Len(frames) <= MaxFrames
    /\ framesIn' = framesIn + Len(frames)
    /\ \E mk \in MaskingKeys :
         LET r == loopBody(Session, ChunkBytes(frames), messageBuffer, onMessage, mk)
         IN  /\ Commit(r.st)
             /\ messageBuffer' = r.messageBuffer
             /\ loopPc' = r.pc
    /\ lastOp' = Op("read", <<>>, 0, frames)
    /\ UNCHANGED <<codec, connectPc, key, response, transportClosed, onMessage>>

\* read() fails with an error other than Interrupted and BadResource
ReadError ==
    /\ Running
    /\ loopPc = "read"
    /\ transportClosed = 0
    /\ \E mk \in MaskingKeys : Commit(close(Session, INTERNAL_ERROR, mk))
    /\ loopPc' = "exited"
    /\ lastOp' = Op("readError", <<>>, 0, <<>>)
    /\ UNCHANGED <<codec, connectPc, key, response, messageBuffer, transportClosed,
                   framesIn, onMessage>>

\* read() fails with Interrupted or BadResource: the transport was closed
ReadInterrupted ==
    /\ Running
    /\ loopPc = "read"
    /\ transportClosed > 0
    /\ loopPc' = "exited"
    /\ lastOp' = Op("readInterrupted", <<>>, 0, <<>>)
    /\ out' = <<>>
    /\ UNCHANGED <<codec, readyState, connection, connectPc, key, response,
                   messageBuffer, pendingSends, pendingClose, transportClosed,
                   closeFrames, framesIn, onMessage>>

\* the reads of the session specification: up to MaxFrames frames in all
Chunks == UNION {[1..n -> ServerFrames] : n \in 0..MaxFrames}

Next ==
    \/ \E k \in SessionKeys : ConnectStart(k)
    \/ \E resp \in SessionResponses : ConnectFinish(resp)
    \/ ConnectFail
    \/ \E data \in SendInputs : Send(data)
    \/ \E errorType \in CloseInputs : Close(errorType)
    \/ SendWriteDone
    \/ SendWriteFail
    \/ CloseWriteDone
    \/ CloseWriteFail
    \/ \E frames \in Chunks : ReadBytes(frames)
    \/ ReadError
    \/ ReadInterrupted

Spec == Init /\ [][Next]_vars

\* the handshake alone, over every response of HandshakeResponses
HandshakeNext ==
    \/ \E k \in SessionKeys : ConnectStart(k)
    \/ \E resp \in HandshakeResponses : ConnectFinish(resp)
    \/ ConnectFail
    \/ connectPc /= "done" /\ \E data \in SendInputs : Send(data)
    \/ connectPc /= "done" /\ \E errorType \in CloseInputs : Close(errorType)

SpecHandshake == Init /\ [][HandshakeNext]_vars

\* the codec alone, over every opcode and the lengths of CodecLengths
CodecInit ==
    /\ readyState = CLOSED
    /\ connection = FALSE
    /\ connectPc = "idle"
    /\ key = ""
    /\ response = <<>>
    /\ loopPc = "idle"
    /\ messageBuffer = <<>>
    /\ pendingSends = 0
    /\ pendingClose = FALSE
    /\ transportClosed = 0
    /\ closeFrames = 0
    /\ framesIn = 0
    /\ onMessage = "none"
    /\ lastOp = NoOp
    /\ out = <<>>
    /\ codec \in {[NoCodec EXCEPT !.pc = "input", !.opcode = o, !.len = l] :
                    o \in CodecOpcodes, l \in CodecLengths}

\* new FrameGenerator(opcode, data, masked)
Encode(masked, maskingKey) ==
    /\ codec.pc = "input"
    /\ codec.len.hi = 0 \/ masked = "false"
    /\ masked = "true" => codec.opcode \in MaskedOpcodes
    /\ codec' = [codec EXCEPT !.pc = "encoded",
                               !.masked = masked,
                               !.maskingKey = maskingKey,
                               !.frame = EncodedFrame(codec.opcode, codec.len,
                                                      masked, maskingKey)]
    /\ UNCHANGED <<readyState, connection, connectPc, key, response, loopPc,
                   messageBuffer, pendingSends, pendingClose, transportClosed,
                   closeFrames, framesIn, onMessage, lastOp, out>>

\* the unmasked frame is decoded as the receive loop decodes a buffer
Decode ==
    /\ codec.pc = "encoded"
    /\ codec.masked = "false"
    /\ codec' = [codec EXCEPT !.pc = "decoded",
                               !.decoded = decodeFrame(codec.frame)]
    /\ UNCHANGED <<readyState, connection, connectPc, key, response, loopPc,
                   messageBuffer, pendingSends, pendingClose, transportClosed,
                   closeFrames, framesIn, onMessage, lastOp, out>>

CodecNext ==
    \/ \E masked \in MaskArgs, mk \in MaskingKeys : Encode(masked, mk)
    \/ Decode

SpecCodec == CodecInit /\ [][CodecNext]_vars

\* the first read() of the connection completes with only the first n bytes
\* of a frame (the rest is still on its way), and the loop runs to its next
\* await
ReadPartial(frame, n) ==
    /\ Running
    /\ loopPc = "read"
    /\ transportClosed = 0
    /\ framesIn = 0
    /\ n >= 1 /\ n < Len(WireBytes(frame))
    /\ framesIn' = framesIn + 1
    /\ \E mk \in MaskingKeys :
         LET r == loopBody(Session, SubSeq(WireBytes(frame), 1, n),
                           messageBuffer, onMessage, mk)
         IN  /\ Commit(r.st)
             /\ messageBuffer' = r.messageBuffer
             /\ loopPc' = r.pc
    /\ lastOp' = Op("readPartial", <<>>, n, <<frame>>)
    /\ UNCHANGED <<codec, connectPc, key, response, transportClosed, onMessage>>

\* read buffers holding a Binary frame with the 127 length marker: 8 length
\* bytes that give 2, -1 and -10 when accumulated in 32 bits
RawBuffers ==
    {<<130, 127, 0, 0, 0, 0, 0, 0, 0, 2, 0, 255>>,
     <<130, 127, 255, 255, 255, 255, 255, 255, 255, 255>>,
     <<130, 127, 0, 0, 0, 0, 255, 255, 255, 246>>}

\* the first read() of the connection completes with these bytes, and the
\* loop runs to its next await, or never gets there
ReadRaw(bytes) ==
    /\ Running
    /\ loopPc = "read"
    /\ transportClosed = 0
    /\ framesIn = 0
    /\ framesIn' = framesIn + 1
    /\ \E mk \in MaskingKeys :
         LET r == loopBody(Session, bytes, messageBuffer, onMessage, mk)
         IN  /\ Commit(r.st)
             /\ messageBuffer' = r.messageBuffer
             /\ loopPc' = r.pc
    /\ lastOp' = Op("readRaw", bytes, 0, <<>>)
    /\ UNCHANGED <<codec, connectPc, key, response, transportClosed, onMessage>>

\* the longest frame of ServerFrames, in bytes
MaxWireBytes == 14

\* a connection whose first read returns part of a frame, or a frame with
\* a 64-bit length
SplitNext ==
    \/ \E k \in SessionKeys : ConnectStart(k)
    \/ \E resp \in SessionResponses : ConnectFinish(resp)
    \/ \E frame \in ServerFrames, n \in 1..MaxWireBytes : ReadPartial(frame, n)
    \/ \E bytes \in RawBuffers : ReadRaw(bytes)

SpecSplit == Init /\ [][SplitNext]_vars

-----------------------------------------------------------------------------
(* Reading the record of the last operation.                               *)

IsWrite(e) == e.ev = "write"
IsOnMessage(e) == e.ev = "onMessage"
IsOnClose(e) == e.ev = "onClose"
IsCallback(e) == e.ev \in {"onMessage", "onClose", "onError"}
IsPongWrite(e) == e.ev = "write" /\ e.n = 10
IsCloseWrite(e) == e.ev = "write" /\ e.n = 8
IsIO(e) == e.ev \in {"write", "read"}

\* the payload a server finds in a masked client frame of at most 125 bytes
PayloadOnWire(frame) ==
    MaskData(SubSeq(frame, 7, 6 + (frame[2] % 128)), SubSeq(frame, 3, 6))

\* the frames of the last read are the first ones of the connection, so no
\* fragment was pending when they arrived
FirstFrames == lastOp.op = "read" /\ framesIn = Len(lastOp.frames)

-----------------------------------------------------------------------------
(* C1: connect() ends Connected with the transport retained only if the    *)
(* response passed all four checks (status line HTTP/1.1 101, Connection:  *)
(* Upgrade, Upgrade: websocket, Sec-WebSocket-Accept derived from the      *)
(* key); when one of them is missing or wrong it ends Closed with no       *)
(* transport retained.                                                     *)

\* the four conditions, read off the response the server sent
AllFourHold(lines, k) ==
    /\ \E i \in 1..Len(lines) : lines[i].proto = "HTTP/1.1" /\ lines[i].code = "101"
    /\ \E i \in 1..Len(lines) : lines[i].f0 = "connection" /\ lines[i].f1 = "Upgrade"
    /\ \E i \in 1..Len(lines) : lines[i].f0 = "upgrade" /\ lines[i].f1 = "websocket"
    /\ \E i \in 1..Len(lines) :
          lines[i].f0 = "sec-websocket-accept" /\ lines[i].f1 = AcceptOf(k)

C1_HandshakeGate ==
    lastOp.op = "handshake" =>
      /\ (readyState = CONNECTED /\ connection) => AllFourHold(response, key)
      /\ ~AllFourHold(response, key) => (readyState = CLOSED /\ ~connection)

-----------------------------------------------------------------------------
(* C2: a fragmentation run received while Connected (first frame fin=0     *)
(* with opcode Text or Binary, continuation frames with fin=0, a final     *)
(* continuation frame with fin=1) gives exactly one onMessage, whose       *)
(* payload is the frames' payloads joined in arrival order and whose kind  *)
(* is the first frame's opcode, and the session does not close.            *)

IsRun(frames) ==
    /\ Len(frames) >= 2
    /\ \A i \in 1..Len(frames) : frames[i].mask = 0
    /\ frames[1].fin = 0 /\ frames[1].opcode \in {1, 2}
    /\ \A i \in 2..Len(frames) :
          frames[i].opcode = 0 /\ (frames[i].fin = 1 <=> i = Len(frames))

RunPayload(frames) ==
    concatenateUint8Arrays([i \in 1..Len(frames) |-> frames[i].payload])

C2_FragmentsReassembled ==
    (FirstFrames /\ lastOp.rs = CONNECTED /\ IsRun(lastOp.frames)) =>
      LET msgs == SelectSeq(out, IsOnMessage)
          first == lastOp.frames[1]
      IN  /\ Len(msgs) = 1
          /\ msgs[1].n = first.opcode
          /\ msgs[1].data = IF first.opcode = 1
                            THEN TextDecode(RunPayload(lastOp.frames))
                            ELSE RunPayload(lastOp.frames)
          /\ onMessage /= "close" =>
               readyState \notin {CLOSING, CLOSED} /\ closeFrames = 0

-----------------------------------------------------------------------------
(* C3: send(data) writes nothing to the transport and leaves readyState    *)
(* as it was when readyState is Connecting, Closing or Closed at the call, *)
(* and when data is empty in any state.                                    *)

C3_SendIsNoOp ==
    (lastOp.op = "send"
       /\ (lastOp.rs \in {CONNECTING, CLOSING, CLOSED} \/ lastOp.text = <<>>)) =>
      /\ SelectSeq(out, IsWrite) = <<>>
      /\ readyState = lastOp.rs

\* a non-empty send was refused while the Close frame was still in flight
C3_Witness ==
    /\ lastOp.op = "send" /\ lastOp.text /= <<>>
    /\ lastOp.rs = CLOSING /\ pendingClose

-----------------------------------------------------------------------------
(* C4: close is idempotent.  Whatever close calls are made on a            *)
(* connection, by the user or by the session itself, and however they      *)
(* interleave with write completions, at most one Close frame is handed to *)
(* the transport (exactly one once close has been called on the            *)
(* established connection) and the transport is closed at most once; a     *)
(* close call made while Closing or Closed writes nothing and changes no   *)
(* state.                                                                  *)

-----------------------------------------------------------------------------
(* C5: for a Ping frame (fin=1) dispatched while the session is Connected, *)
(* exactly one Pong frame is written, its payload is the Ping's payload,   *)
(* and no user callback is invoked.                                        *)

IsPing(f) == f.opcode = 9 /\ f.fin = 1 /\ f.mask = 0

C5_PingAnswered ==
    (FirstFrames /\ lastOp.rs = CONNECTED /\ Len(lastOp.frames) = 1
       /\ IsPing(lastOp.frames[1])) =>
      LET pongs == SelectSeq(out, IsPongWrite)
      IN  /\ Len(pongs) = 1
          /\ PayloadOnWire(pongs[1].data) = lastOp.frames[1].payload
          /\ SelectSeq(out, IsCallback) = <<>>

-----------------------------------------------------------------------------
(* C6: when a Close frame whose payload begins with bytes hi, lo is        *)
(* dispatched, readyState becomes Closed, onClose is invoked exactly once  *)
(* with hi * 256 + lo, and no Close frame is written back.                 *)

IsCloseFrame(f) == f.opcode = 8 /\ f.fin = 1 /\ f.mask = 0 /\ Len(f.payload) >= 2

C6_CloseFrameReported ==
    (lastOp.op = "read" /\ Len(lastOp.frames) = 1
       /\ IsCloseFrame(lastOp.frames[1])) =>
      LET closes == SelectSeq(out, IsOnClose)
          p == lastOp.frames[1].payload
      IN  /\ readyState = CLOSED
          /\ Len(closes) = 1
          /\ closes[1].n = p[1] * 256 + p[2]
          /\ SelectSeq(out, IsCloseWrite) = <<>>

-----------------------------------------------------------------------------
(* C7: a received frame with the mask bit set is never dispatched; the     *)
(* session calls close(PROTOCOL_ERROR), decodes nothing more of that read  *)
(* buffer, and the receive loop ends.                                      *)

\* the frames of the read that precede its first masked frame
BeforeMasked(frames) ==
    Cardinality({i \in 1..Len(frames) : \A j \in 1..i : frames[j].mask = 0})

IsDispatch(e) == IsCallback(e) \/ IsPongWrite(e)

C7_MaskedFrameRejected ==
    (lastOp.op = "read" /\ \E i \in 1..Len(lastOp.frames) : lastOp.frames[i].mask = 1) =>
      /\ Len(SelectSeq(out, IsDispatch)) <= BeforeMasked(lastOp.frames)
      /\ readyState \in {CLOSING, CLOSED}
      /\ loopPc = "exited"
      /\ (lastOp.frames[1].mask = 1 /\ lastOp.rs \in {CONNECTED, OPEN} /\ lastOp.conn) =>
           /\ Len(out) = 1 /\ IsCloseWrite(out[1])
           /\ PayloadOnWire(out[1].data) = ErrorTypeBytes(PROTOCOL_ERROR)

-----------------------------------------------------------------------------
(* C8: a received Pong frame has no effect: readyState is unchanged,       *)
(* nothing is written, no callback is invoked, the receive loop goes on.   *)

IsPong(f) == f.opcode = 10 /\ f.fin = 1 /\ f.mask = 0

C8_PongIgnored ==
    (FirstFrames /\ lastOp.rs = CONNECTED /\ lastOp.conn
       /\ Len(lastOp.frames) = 1 /\ IsPong(lastOp.frames[1])) =>
      /\ readyState = lastOp.rs
      /\ SelectSeq(out, IsWrite) = <<>>
      /\ SelectSeq(out, IsCallback) = <<>>
      /\ loopPc = "read"

-----------------------------------------------------------------------------
(* C9: Closed is terminal: once readyState is Closed after a connection,   *)
(* it stays Closed whatever send/close calls and write completions follow. *)

C9_ClosedIsTerminal ==
    [][(connectPc = "done" /\ readyState = CLOSED) => readyState' = CLOSED]_vars

-----------------------------------------------------------------------------
(* C10: no transport I/O is started once readyState is Closed: no write    *)
(* (data frame, Pong, Close frame) and no read, also for the frames that   *)
(* follow a Close frame in the same read buffer.                           *)

C10_NoIOWhenClosed ==
    \A i \in 1..Len(out) : IsIO(out[i]) => out[i].rs /= CLOSED

-----------------------------------------------------------------------------
(* C11: while the session is neither Closing nor Closed, readyState is     *)
(* Open exactly when at least one send's transport write is still in       *)
(* flight and Connected exactly when none is, also when sends overlap.     *)

C11_OpenIffSendInFlight ==
    (connectPc = "done" /\ readyState \in {CONNECTED, OPEN}) =>
      /\ readyState = OPEN <=> pendingSends > 0
      /\ readyState = CONNECTED <=> pendingSends = 0

-----------------------------------------------------------------------------
(* C12: a send never stops the receive loop: when a read delivers frames   *)
(* to a Connected or Open session and the session is still Connected or    *)
(* Open when they are handled (no close call, no Close frame), the loop    *)
(* goes on to its next read.                                               *)

C12_SendNeverStopsLoop ==
    (lastOp.op = "read" /\ lastOp.frames /= <<>> /\ lastOp.conn
       /\ lastOp.rs \in {CONNECTED, OPEN} /\ readyState \in {CONNECTED, OPEN}) =>
      loopPc = "read"

-----------------------------------------------------------------------------
(* C13: in every reachable state where readyState is Connecting or Closed  *)
(* the session's connection handle is absent.                              *)

C13_HandleOnlyWhileLive ==
    readyState \in {CONNECTING, CLOSED} => ~connection

-----------------------------------------------------------------------------
(* C14: a close(code) call on a Connected or Open session makes readyState *)
(* Closing at once and writes a Close frame whose payload is the code in   *)
(* two big-endian bytes; once every pending write has completed, in        *)
(* whatever order, the transport is closed and readyState is Closed.       *)

\* every write the session started has completed, none has failed
WritesCompleted ==
    pendingSends = 0 /\ ~pendingClose /\ transportClosed = closeFrames

C14_CloseCompletes ==
    /\ (lastOp.op = "close" /\ lastOp.rs \in {CONNECTED, OPEN} /\ lastOp.conn) =>
         /\ readyState = CLOSING
         /\ Len(out) = 1 /\ IsCloseWrite(out[1])
         /\ PayloadOnWire(out[1].data) = ErrorTypeBytes(lastOp.code)
    /\ (closeFrames > 0 /\ WritesCompleted) =>
         transportClosed > 0 /\ readyState = CLOSED

-----------------------------------------------------------------------------
(* C15: a masked server frame, an unexpected opcode, the end of the stream *)
(* and a read error are each reported to the caller by an invocation of    *)
(* onClose or onError, and none of them leaves an unhandled rejection.     *)

IsFault(e) == e.ev = "fault"

\* a continuation frame that continues nothing: handleFrame gets opcode 0
IsStrayContinuation(f) == f.opcode = 0 /\ f.fin = 1 /\ f.mask = 0

\* the last operation is a failure the session detected on a live connection
FailureDetected ==
    /\ lastOp.rs = CONNECTED /\ lastOp.conn
    /\ \/ lastOp.op = "readError"
       \/ lastOp.op = "read" /\ lastOp.frames = <<>>
       \/ FirstFrames /\ Len(lastOp.frames) = 1 /\ lastOp.frames[1].mask = 1
       \/ FirstFrames /\ Len(lastOp.frames) = 1 /\ IsStrayContinuation(lastOp.frames[1])

C15_FailuresReported ==
    FailureDetected =>
      /\ SelectSeq(out, IsCallback) /= <<>>
      /\ SelectSeq(out, IsFault) = <<>>

-----------------------------------------------------------------------------
(* C16: when a read of the receive loop returns the end of the stream or   *)
(* fails, the session calls close(INTERNAL_ERROR) and the loop ends; the   *)
(* loop never ends on a read failure with readyState left at Connected.    *)

ReadFailed ==
    \/ lastOp.op \in {"readError", "readInterrupted"}
    \/ lastOp.op = "read" /\ lastOp.frames = <<>>

C16_ReadFailureCloses ==
    ReadFailed =>
      /\ loopPc = "exited"
      /\ readyState \in {CLOSING, CLOSED}
      /\ (lastOp.rs \in {CONNECTED, OPEN} /\ lastOp.conn) =>
           /\ Len(out) = 1 /\ IsCloseWrite(out[1])
           /\ PayloadOnWire(out[1].data) = ErrorTypeBytes(INTERNAL_ERROR)

-----------------------------------------------------------------------------
(* C17: codec round trip: for every opcode and every payload length in     *)
(* 0, 1, 125, 126, 127, 65535, 65536 and one above 2^32, decoding the      *)
(* unmasked frame the encoder produced gives fin = 1, the same opcode, the *)
(* same payload length and payload bytes, and consumes the whole frame.    *)

C17_CodecRoundTrip ==
    codec.pc = "decoded" =>
      /\ codec.decoded.fin = 1
      /\ codec.decoded.opcode = codec.opcode
      /\ Length(0, codec.decoded.payloadLen) = codec.len
      /\ codec.len.hi = 0 /\ codec.decoded.payload = CodecPayload(codec.len.lo)
      /\ Length(0, codec.decoded.offset) = EncodedLength(codec.opcode, codec.len)

-----------------------------------------------------------------------------
(* C18: every frame the session writes after the handshake (the Text frame *)
(* of send, the Pong reply, the Close frame) has FIN = 1 and the mask bit  *)
(* set.                                                                    *)

\* bit 7 of a byte
Bit7(b) == (b \div 128) % 2

\* the header the session's call sites get for a payload of n bytes
HeaderBitsSet(opcode, n) ==
    LET header == FrameHeader(opcode, n, "true", CHOOSE mk \in MaskingKeys : TRUE)
    IN  Bit7(header[1]) = 1 /\ Bit7(header[2]) = 1

C18_WritesFinAndMasked ==
    /\ \A i \in 1..Len(out) :
         IsWrite(out[i]) => Bit7(out[i].data[1]) = 1 /\ Bit7(out[i].data[2]) = 1
    /\ \A opcode \in {1, 8, 10}, n \in {0, 125, 126, 65535, 65536} :
         HeaderBitsSet(opcode, n)

\* one read made the session write a Text frame and a Pong
C18_Witness ==
    /\ lastOp.op = "read"
    /\ \E i, j \in 1..Len(out) :
         /\ IsWrite(out[i]) /\ out[i].n = 1
         /\ IsPongWrite(out[j])

-----------------------------------------------------------------------------
(* C19: frames are handled in arrival order: the onMessage invocations and *)
(* Pong writes of a read occur in the order of the frames that caused      *)
(* them, control frames and data frames alike.  Reads follow one another,  *)
(* each decoded whole before the next is started.                          *)

\* what a frame makes the session do: 9 a Pong write, 1 or 2 an onMessage
\* of that type, 0 neither
FrameKind(f) ==
    IF f.fin = 1 /\ f.mask = 0 /\ f.opcode \in {1, 2, 9} THEN f.opcode ELSE 0

EventKind(e) ==
    IF IsPongWrite(e) THEN 9 ELSE IF IsOnMessage(e) THEN e.n ELSE 0

Kinds(s, Kind(_)) ==
    LET k == [i \in 1..Len(s) |-> Kind(s[i])]
    IN  SelectSeq(k, LAMBDA x : x /= 0)

\* a is b with some elements left out
RECURSIVE IsSubseq(_, _)
IsSubseq(a, b) ==
    IF a = <<>> THEN TRUE
    ELSE IF b = <<>> THEN FALSE
    ELSE IF Head(a) = Head(b) THEN IsSubseq(Tail(a), Tail(b))
    ELSE IsSubseq(a, Tail(b))

C19_ArrivalOrder ==
    lastOp.op = "read" =>
      IsSubseq(Kinds(out, EventKind), Kinds(lastOp.frames, FrameKind))

\* a Ping and a data frame of one read, both dispatched
C19_Witness ==
    /\ lastOp.op = "read" /\ Len(lastOp.frames) = 2
    /\ Kinds(lastOp.frames, FrameKind) = <<9, 2>>
    /\ Kinds(out, EventKind) = <<9, 2>>

-----------------------------------------------------------------------------
(* C20: every change of readyState from a state other than Closed is one   *)
(* of: Connecting to Connected or Closed, Connected to Open, Open to       *)
(* Connected, Connected or Open to Closing, Closing to Closed.  Stated for *)
(* the steps that change readyState once: the calls of the API and the     *)
(* completions of writes.                                                  *)

ListedTransitions ==
    {<<CONNECTING, CONNECTED>>, <<CONNECTING, CLOSED>>,
     <<CONNECTED, OPEN>>, <<OPEN, CONNECTED>>,
     <<CONNECTED, CLOSING>>, <<OPEN, CLOSING>>,
     <<CLOSING, CLOSED>>}

C20_OnlyListedTransitions ==
    [][(readyState /= CLOSED /\ readyState' /= readyState
          /\ lastOp'.op /= "read") =>
         <<readyState, readyState'>> \in ListedTransitions]_vars

-----------------------------------------------------------------------------
(* Reading an encoded frame of the codec specification.                    *)

\* the bytes of the length field that follow byte 1
LenBytes(n) == IF n <= 125 THEN 0 ELSE IF n <= 65535 THEN 2 ELSE 8

\* x in 4 big-endian bytes
Be32(x) ==
    <<(x \div 16777216) % 256, (x \div 65536) % 256, (x \div 256) % 256, x % 256>>

\* the last n bytes of the frame: where frame.set(data, header.length) put
\* the payload
PayloadPart(frame, n) == SubSeq(frame, Len(frame) - n + 1, Len(frame))

\* every byte of part is the payload's byte XOR key[i mod 4]
IsMasked(part, payload, maskingKey) ==
    /\ Len(part) = Len(payload)
    /\ \A i \in 1..Len(part) :
         part[i] = BitXor(payload[i], maskingKey[((i - 1) % 4) + 1])

Encoded == codec.pc = "encoded" /\ codec.len.hi = 0

-----------------------------------------------------------------------------
(* C21: a frame encoded with mask = true carries the 4-byte masking key    *)
(* right after the length field (offset 2, 4 or 10 for a length <= 125,    *)
(* <= 65535, above), the length field bytes are the ones the encoder wrote *)
(* for that length, and payload byte i on the wire is payload[i] XOR       *)
(* key[i mod 4].                                                           *)

C21_KeyAfterLength ==
    (Encoded /\ codec.masked = "true") =>
      LET n == codec.len.lo
          keyAt == 2 + LenBytes(n)
          plain == FrameHeader(codec.opcode, n, "false", codec.maskingKey)
      IN  /\ keyAt \in {2, 4, 10}
          /\ Len(codec.frame) = keyAt + 4 + n
          /\ SubSeq(codec.frame, keyAt + 1, keyAt + 4) = codec.maskingKey
          /\ codec.frame[2] % 128 = plain[2]
          /\ SubSeq(codec.frame, 3, keyAt) = SubSeq(plain, 3, keyAt)
          /\ IsMasked(PayloadPart(codec.frame, n), CodecPayload(n), codec.maskingKey)

-----------------------------------------------------------------------------
(* C22: the length field follows the three-way rule: the length in the low *)
(* 7 bits of byte 1 when it is <= 125; 126 and the length in 2 big-endian  *)
(* bytes when it is <= 65535; otherwise 127 and the length as a 64-bit     *)
(* big-endian integer in 8 bytes.  Stated for the frames encoded with      *)
(* mask = false, whose length bytes no masking key overlays.               *)

C22_LengthField ==
    (codec.pc = "encoded" /\ codec.masked = "false") =>
      LET n == codec.len.lo
          marker == codec.frame[2] % 128
      IN  IF codec.len.hi = 0 /\ n <= 125 THEN marker = n
          ELSE IF codec.len.hi = 0 /\ n <= 65535
            THEN marker = 126 /\ SubSeq(codec.frame, 3, 4) = <<n \div 256, n % 256>>
          ELSE /\ marker = 127
               /\ SubSeq(codec.frame, 3, 10) = Be32(codec.len.hi) \o Be32(n)

-----------------------------------------------------------------------------
(* C23: in every encoded frame, for the mask argument true, false or       *)
(* omitted, the three indications agree: the mask bit of byte 1 is set iff *)
(* 4 masking-key bytes follow the length field iff the payload bytes were  *)
(* XORed with the key.                                                     *)

C23_MaskIndicationsAgree ==
    Encoded =>
      LET n == codec.len.lo
          maskBit == Bit7(codec.frame[2]) = 1
          keyPresent == Len(codec.frame) = 2 + LenBytes(n) + 4 + n
          xored == IsMasked(PayloadPart(codec.frame, n), CodecPayload(n),
                            IF codec.maskingKey = <<>> THEN <<0, 0, 0, 0>>
                            ELSE codec.maskingKey)
      IN  /\ maskBit <=> keyPresent
          /\ n > 0 => (keyPresent <=> xored)

-----------------------------------------------------------------------------
(* C24: when one read delivers several complete frames back to back, every *)
(* one of them is decoded and dispatched, whatever the payload bytes are   *)
(* (non-ASCII, multi-byte UTF-8, whitespace).  Stated for reads whose      *)
(* frames are all unfragmented Text, Binary or Ping frames, on a live      *)
(* connection whose onMessage handler does not close.                      *)

AllDispatchable(frames) ==
    \A i \in 1..Len(frames) : FrameKind(frames[i]) /= 0

C24_EveryFrameDispatched ==
    (FirstFrames /\ lastOp.rs = CONNECTED /\ lastOp.conn /\ onMessage /= "close"
       /\ AllDispatchable(lastOp.frames)) =>
      Kinds(out, EventKind) = Kinds(lastOp.frames, FrameKind)

-----------------------------------------------------------------------------
(* C25: a frame is dispatched only with a payload of exactly its declared  *)
(* length: when a read holds fewer bytes than the frame's header declares  *)
(* (header or payload split across reads), the frame is not dispatched but *)
(* held until the rest arrives.                                            *)

C25_IncompleteFrameHeld ==
    lastOp.op = "readPartial" =>
      /\ SelectSeq(out, IsDispatch) = <<>>
      /\ readyState = lastOp.rs
      /\ loopPc = "read"

-----------------------------------------------------------------------------
(* C26: a failure of the transport write of the Close frame is caught and  *)
(* reported by close, never an unhandled rejection, and the session is     *)
(* still abandoned: the connection handle is dropped.                      *)

C26_CloseWriteFailureCaught ==
    lastOp.op = "closeWriteFail" =>
      /\ SelectSeq(out, IsFault) = <<>>
      /\ ~connection

-----------------------------------------------------------------------------
(* C27: once the session has initiated a close or has processed a received *)
(* Close frame, no further onMessage is invoked, also for the frames that  *)
(* follow in the same read buffer.                                         *)

C27_NoMessageAfterClose ==
    \A i \in 1..Len(out) :
      IsOnMessage(out[i]) => out[i].rs \notin {CLOSING, CLOSED}

-----------------------------------------------------------------------------
(* C28: a Ping or Close frame (fin = 1) that arrives after the first       *)
(* fragment of an unfinished message is handled with its own payload only  *)
(* and leaves the pending fragments unchanged.                             *)

IsFirstFragment(f) == f.fin = 0 /\ f.mask = 0 /\ f.opcode \in {1, 2}

C28_ControlBetweenFragments ==
    (FirstFrames /\ lastOp.rs = CONNECTED /\ lastOp.conn
       /\ Len(lastOp.frames) = 2 /\ IsFirstFragment(lastOp.frames[1])) =>
      LET f == lastOp.frames[2]
          pongs == SelectSeq(out, IsPongWrite)
          closes == SelectSeq(out, IsOnClose)
      IN  /\ IsPing(f) =>
               /\ Len(pongs) = 1
               /\ PayloadOnWire(pongs[1].data) = f.payload
               /\ messageBuffer = <<lastOp.frames[1].payload>>
          /\ IsCloseFrame(f) =>
               /\ Len(closes) = 1
               /\ closes[1].n = f.payload[1] * 256 + f.payload[2]
               /\ messageBuffer = <<lastOp.frames[1].payload>>

-----------------------------------------------------------------------------
(* C29: the session never starts a transport write on an absent           *)
(* connection handle: where send passes its guard, and where a Ping is     *)
(* answered while a read is handled, the handle is present.                *)

\* the writes of the last operation that found no connection
AbsentHandleWrites == SelectSeq(out, IsFault)

C29_HandlePresentForIO ==
    /\ (lastOp.op = "send" /\ lastOp.rs \in {OPEN, CONNECTED} /\ lastOp.text /= <<>>) =>
         lastOp.conn /\ AbsentHandleWrites = <<>>
    /\ lastOp.op = "read" => AbsentHandleWrites = <<>>

-----------------------------------------------------------------------------
(* C30: no transport is leaked: when readyState is Closed after connect    *)
(* opened a transport, the transport has been closed, or a Close frame's   *)
(* write is pending whose completion closes it.                            *)

C30_NoTransportLeak ==
    (connectPc = "done" /\ readyState = CLOSED) =>
      transportClosed > 0 \/ pendingClose

-----------------------------------------------------------------------------
(* C31: decoding one read buffer terminates for every byte content: each   *)
(* iteration of the decode loop moves the offset forward by at least 2,    *)
(* also for a frame with the 127 length marker whose 8 length bytes give   *)
(* 2^31 or more when accumulated with 32-bit shifts; the payload length is *)
(* never negative.                                                         *)

C31_DecodeTerminates ==
    lastOp.op = "readRaw" =>
      LET h == ParseHeader(lastOp.text, 0)
      IN  /\ h.payloadLen >= 0
          /\ h.offset + h.payloadLen >= 2
          /\ loopPc /= "hung"

=============================================================================
